---- MODULE Spec2Model ----
(***************************************************************************)
(* Model of bundle_osx.py: the macOS bundle builder.                       *)
(*                                                                         *)
(* Strings (paths) are sequences of symbols.  The symbols "/", "~", " ",   *)
(* "." and "*" are the characters the code inspects; every other symbol is *)
(* an opaque fragment of a file name, free of those characters.            *)
(* The filesystem is a function from canonical absolute paths to nodes.    *)
(***************************************************************************)
EXTENDS Integers, Sequences, FiniteSets, TLC

VARIABLES
    args,           \* the parsed command line (argparse.Namespace)
    home, cwd,      \* $HOME and os.getcwd()
    fs,             \* the filesystem
    fs0,            \* the filesystem the script started on (never changed)
    pc,             \* the statement the script is at
    CONDA_BASE,     \* the module global CONDA_BASE
    app_path,       \* main's local app_path
    icon_basename,  \* main's local icon_basename
    keep_app,       \* make_dmg's parameter keep_app
    ret,            \* the value the last finished function returned
    prompts,        \* rejected answers in the running get_confirmation loop
    log,            \* the external effects performed so far, in order
    err             \* the uncaught exception, <<>> when there is none

vars == <<args, home, cwd, fs, fs0, pc, CONDA_BASE, app_path, icon_basename,
          keep_app, ret, prompts, log, err>>

\* ------------------------------------------------------------------------
\* Bounds
\* ------------------------------------------------------------------------
MaxLen == 3
MaxPrompts == 2

\* ------------------------------------------------------------------------
\* String helpers (str methods used by posixpath)
\* ------------------------------------------------------------------------
HasSpace(s) == \E i \in 1..Len(s) : s[i] = " "

startswith(s, c) == Len(s) >= 1 /\ s[1] = c

endswith(s, c) == Len(s) >= 1 /\ s[Len(s)] = c

\* str.find(c, from): least position >= from holding c, 0 when there is none
\* (positions are 1-based here, Python's are 0-based).
find(s, c, from) ==
    IF \E i \in from..Len(s) : s[i] = c
    THEN CHOOSE i \in from..Len(s) : s[i] = c /\ \A j \in from..(i-1) : s[j] # c
    ELSE 0

RECURSIVE rstrip(_, _)
rstrip(s, c) == IF endswith(s, c) THEN rstrip(SubSeq(s, 1, Len(s) - 1), c) ELSE s

\* str.split("/")
RECURSIVE split(_)
split(s) ==
    LET i == find(s, "/", 1)
    IN IF i = 0 THEN <<s>>
       ELSE <<SubSeq(s, 1, i - 1)>> \o split(SubSeq(s, i + 1, Len(s)))

\* "/".join(comps)
RECURSIVE joinsep(_)
joinsep(comps) ==
    IF comps = <<>> THEN <<>>
    ELSE IF Len(comps) = 1 THEN comps[1]
    ELSE comps[1] \o <<"/">> \o joinsep(Tail(comps))

\* ------------------------------------------------------------------------
\* posixpath
\* ------------------------------------------------------------------------
\* os.path.join(a, b)
join(a, b) ==
    IF startswith(b, "/") THEN b
    ELSE IF a = <<>> \/ endswith(a, "/") THEN a \o b
    ELSE a \o <<"/">> \o b

\* os.path.expanduser with HOME = h; the user database knows no other user,
\* so "~name" is returned unchanged.
expanduser(p, h) ==
    IF ~startswith(p, "~") THEN p
    ELSE LET f == find(p, "/", 2)
             i == IF f = 0 THEN Len(p) + 1 ELSE f
         IN IF i # 2 THEN p
            ELSE LET r == rstrip(h, "/") \o SubSeq(p, i, Len(p))
                 IN IF r = <<>> THEN <<"/">> ELSE r

RECURSIVE normcomps(_, _, _)
normcomps(comps, new_comps, initial_slashes) ==
    IF comps = <<>> THEN new_comps
    ELSE LET comp == Head(comps)
             n == Len(new_comps)
         IN IF comp = <<>> \/ comp = <<".">>
            THEN normcomps(Tail(comps), new_comps, initial_slashes)
            ELSE IF comp # <<".", ".">>
                    \/ (initial_slashes = 0 /\ n = 0)
                    \/ (n > 0 /\ new_comps[n] = <<".", ".">>)
            THEN normcomps(Tail(comps), Append(new_comps, comp), initial_slashes)
            ELSE IF n > 0
            THEN normcomps(Tail(comps), SubSeq(new_comps, 1, n - 1), initial_slashes)
            ELSE normcomps(Tail(comps), new_comps, initial_slashes)

\* os.path.normpath
normpath(p) ==
    IF p = <<>> THEN <<".">>
    ELSE LET initial_slashes ==
                 IF ~startswith(p, "/") THEN 0
                 ELSE IF Len(p) >= 2 /\ p[2] = "/" /\ ~(Len(p) >= 3 /\ p[3] = "/")
                 THEN 2 ELSE 1
             body == joinsep(normcomps(split(p), <<>>, initial_slashes))
             r == [i \in 1..initial_slashes |-> "/"] \o body
         IN IF r = <<>> THEN <<".">> ELSE r

\* os.path.abspath with os.getcwd() = c
abspath(p, c) == normpath(IF startswith(p, "/") THEN p ELSE join(c, p))

\* os.path.dirname / os.path.basename
RECURSIVE lastsep(_)
lastsep(p) == IF p = <<>> \/ endswith(p, "/") THEN Len(p)
              ELSE lastsep(SubSeq(p, 1, Len(p) - 1))

basename(p) == SubSeq(p, lastsep(p) + 1, Len(p))

dirname(p) ==
    LET head == SubSeq(p, 1, lastsep(p))
    IN IF head # <<>> /\ \E i \in 1..Len(head) : head[i] # "/"
       THEN rstrip(head, "/") ELSE head

\* ------------------------------------------------------------------------
\* safe_conda_base
\* ------------------------------------------------------------------------
CONDA == <<"conda">>
TEMP_CONDA == <<"~", "/", "_temp_conda">>

\* The test `" " not in conda_dir`.
UnsafeDir(conda_dir) == HasSpace(conda_dir)

safe_conda_base(buildpath, h, c) ==
    LET conda_dir == join(abspath(expanduser(buildpath, h), c), CONDA)
    IN IF ~UnsafeDir(conda_dir) THEN conda_dir
       ELSE abspath(expanduser(TEMP_CONDA, h), c)

\* ------------------------------------------------------------------------
\* Filesystem: fs maps each existing canonical absolute path to its node.
\* Every ancestor of an existing path exists and is a directory.
\* ------------------------------------------------------------------------
ROOT == <<"/">>
ENOENT == <<>>

Dir == [kind |-> "dir", data |-> <<>>]
Link == [kind |-> "link", data |-> <<>>]
File(data) == [kind |-> "file", data |-> data]

canon(comps) == <<"/">> \o joinsep(comps)

comps_of(r) == IF r = ROOT THEN <<>> ELSE Tail(split(r))

\* Kernel path resolution of the components left to walk from directory cur:
\* "." and ".." need cur to be an existing directory.
RECURSIVE walk(_, _, _)
walk(f, todo, cur) ==
    IF todo = <<>> THEN canon(cur)
    ELSE LET comp == Head(todo)
             here == canon(cur)
             isd == here \in DOMAIN f /\ f[here].kind = "dir"
         IN IF comp = <<>> THEN walk(f, Tail(todo), cur)
            ELSE IF comp = <<".">>
            THEN IF isd THEN walk(f, Tail(todo), cur) ELSE ENOENT
            ELSE IF comp = <<".", ".">>
            THEN IF ~isd THEN ENOENT
                 ELSE walk(f, Tail(todo),
                           IF cur = <<>> THEN cur ELSE SubSeq(cur, 1, Len(cur) - 1))
            ELSE walk(f, Tail(todo), Append(cur, comp))

\* The canonical path the kernel resolves p to (process directory c),
\* ENOENT when the walk fails.  The final component need not exist.
resolve(f, p, c) ==
    IF p = <<>> THEN ENOENT
    ELSE walk(f, split(IF startswith(p, "/") THEN p ELSE join(c, p)), <<>>)

exists(f, p, c) == resolve(f, p, c) \in DOMAIN f

isdir(f, p, c) == exists(f, p, c) /\ f[resolve(f, p, c)].kind = "dir"

isfile(f, p, c) == exists(f, p, c) /\ f[resolve(f, p, c)].kind = "file"

\* q is r or lies below r (canonical paths)
under(r, q) ==
    \/ q = r
    \/ r = ROOT
    \/ Len(q) > Len(r) /\ SubSeq(q, 1, Len(r)) = r /\ q[Len(r) + 1] = "/"

parent(r) == canon(SubSeq(comps_of(r), 1, Len(comps_of(r)) - 1))

ancestors(r) == {canon(SubSeq(comps_of(r), 1, k)) : k \in 0..Len(comps_of(r))}

\* q, which lies under r, moved below t
rebase(q, r, t) == t \o SubSeq(q, Len(r) + 1, Len(q))

\* tree with the nodes `new` added (or replaced)
overlay(f, new) ==
    [q \in DOMAIN f \cup DOMAIN new |-> IF q \in DOMAIN new THEN new[q] ELSE f[q]]

\* os.makedirs on a canonical path whose existing ancestors are directories
mkdirs(f, r) == overlay(f, [q \in ancestors(r) \ DOMAIN f |-> Dir])

\* shutil.rmtree / os.remove on a canonical path
rmtree(f, r) == [q \in {x \in DOMAIN f : ~under(r, x)} |-> f[q]]

\* open(r, "w").write(data): the parent must be a directory, r not one
can_write(f, r) ==
    /\ r # ENOENT /\ r # ROOT
    /\ parent(r) \in DOMAIN f /\ f[parent(r)].kind = "dir"
    /\ (r \in DOMAIN f => f[r].kind # "dir")

write(f, r, data) == overlay(f, [q \in {r} |-> File(data)])

\* the subtree at src, placed at dst
graft(f, src, dst) ==
    LET moved == {q \in DOMAIN f : under(src, q)}
    IN [t \in {rebase(q, src, dst) : q \in moved} |->
            f[CHOOSE q \in moved : rebase(q, src, dst) = t]]

\* os.listdir: the names directly below r
listdir(f, r) ==
    {basename(q) : q \in {x \in DOMAIN f : x # r /\ x # ROOT /\ parent(x) = r}}

\* shutil.copytree(src, dst) on canonical paths, src a directory:
\* os.makedirs(dst) refuses an existing dst (dirs_exist_ok is not passed).
copytree_ok(f, src, dst) == dst # ENOENT /\ dst \notin DOMAIN f

copytree(f, src, dst) == overlay(mkdirs(f, dst), graft(f, src, dst))

\* shutil.copy(src, dst) on canonical paths, src a file: into dst when dst is a
\* directory, else onto dst
copy_target(f, src, dst) ==
    IF dst \in DOMAIN f /\ f[dst].kind = "dir"
    THEN dst \o <<"/">> \o basename(src) ELSE dst

copy_ok(f, src, dst) ==
    /\ src \in DOMAIN f /\ f[src].kind = "file"
    /\ can_write(f, copy_target(f, src, dst))

copy(f, src, dst) == write(f, copy_target(f, src, dst), f[src].data)

\* shutil.move(src, dst) on canonical paths with dst an existing directory:
\* the source is renamed to dst/basename(src), which must not exist
move_target(src, dst) == dst \o <<"/">> \o basename(src)

move_ok(f, src, dst) == src \in DOMAIN f /\ move_target(src, dst) \notin DOMAIN f

move(f, src, dst) == overlay(rmtree(f, src), graft(f, src, move_target(src, dst)))

\* shutil.rmtree(p, ignore_errors=True): a missing path, or one that is not a
\* directory, is left as it is
rmtree_ignore_errors(f, p, c) ==
    IF isdir(f, p, c) /\ resolve(f, p, c) # ROOT THEN rmtree(f, resolve(f, p, c)) ELSE f

\* all sequences that list the set S once each (an unspecified listing order)
RECURSIVE orders(_)
orders(S) ==
    IF S = {} THEN {<<>>}
    ELSE UNION {{<<x>> \o t : t \in orders(S \ {x})} : x \in S}

\* fnmatch of a name against a pattern; "*" matches any run of symbols
RECURSIVE fnmatch(_, _)
fnmatch(n, pat) ==
    IF pat = <<>> THEN n = <<>>
    ELSE IF Head(pat) = "*"
    THEN \E k \in 0..Len(n) : fnmatch(SubSeq(n, k + 1, Len(n)), Tail(pat))
    ELSE n # <<>> /\ Head(n) = Head(pat) /\ fnmatch(Tail(n), Tail(pat))

has_magic(s) == \E i \in 1..Len(s) : s[i] = "*"

\* glob.glob(p): the canonical paths matched.  Patterns carry wildcards in
\* their last component only; a pattern without wildcards matches itself
\* when it exists.  Names starting with "." are not matched by a wildcard.
glob(f, p, c) ==
    IF ~has_magic(p) THEN (IF exists(f, p, c) THEN {resolve(f, p, c)} ELSE {})
    ELSE IF ~isdir(f, dirname(p), c) THEN {}
    ELSE LET d == resolve(f, dirname(p), c)
         IN {IF d = ROOT THEN d \o n ELSE d \o <<"/">> \o n :
                n \in {m \in listdir(f, d) : fnmatch(m, basename(p))}}

\* ------------------------------------------------------------------------
\* Program constants and the fixed parts of the command line
\* ------------------------------------------------------------------------
NAME == <<"napari">>
APP_NAME == NAME \o <<".app">>
SCRIPT_DIR == <<"/", "s">>
PLIST_TEMPLATE == join(SCRIPT_DIR, <<"Info.template.plist">>)
DEFAULT_ICON == join(SCRIPT_DIR, <<"icon", ".icns">>)
INSTALLER == <<"miniconda_installer.sh">>
TEMPLATE ==
    << <<"{{ app_name }}">>, <<"{{ app_author }}">>, <<"{{ app_icon }}">>,
       <<"{{ app_version }}">>, <<"{{ year }}">>, <<"{{ copyright }}">> >>
OLD == << <<"old">> >>
FRESH == << <<"new">> >>
LAUNCHER == << <<"#!/usr/bin/env bash">>, <<"+x">> >>

join3(a, b, c) == join(join(a, b), c)
join4(a, b, c, d) == join(join3(a, b, c), d)

\* str.replace(old, new) on a string of symbols / on the tokens of a text
replace(s, old, new) == [i \in 1..Len(s) |-> IF s[i] = old THEN new ELSE s[i]]

\* basename(app_path).strip(".app") for the fixed application name
strip_app(s) == SelectSeq(s, LAMBDA x : x # ".app")

\* ------------------------------------------------------------------------
\* The script, statement by statement
\* ------------------------------------------------------------------------
CONTENTS == <<"Contents">>
\* (a skeleton loop that leaves Frameworks out)
FOLDERS_without_frameworks == << <<"MacOS">>, <<"Resources">> >>

FOLDERS == << <<"MacOS">>, <<"Resources">>, <<"Frameworks">> >>

contents_dir(ap) == join(ap, CONTENTS)
resource_dir(ap) == join3(ap, CONTENTS, <<"Resources">>)
exe_path(ap) == join4(ap, CONTENTS, <<"MacOS">>, strip_app(basename(ap)))
plist_path(ap) == join3(ap, CONTENTS, <<"Info.plist">>)
env_dir_of(conda_base) == join3(conda_base, <<"envs">>, NAME)
dmg_dir_of(ap) == join(dirname(ap), <<"dmg">>)
dmg_file_of(ap) == replace(ap, ".app", ".dmg")

Raise(at, kind) == pc' = "error" /\ err' = <<at, kind>>

\* __main__, lines 417-425: the branch on args.clean
Start ==
    /\ pc = "start"
    /\ pc' = IF args.clean THEN "clean_conda" ELSE "create_app_folder"
    /\ UNCHANGED <<args, fs0, home, cwd, fs, CONDA_BASE, app_path, icon_basename,
                   keep_app, ret, prompts, log, err>>

\* shutil.rmtree(safe_conda_base(args.buildpath), ignore_errors=True)
CleanConda ==
    /\ pc = "clean_conda"
    /\ fs' = rmtree_ignore_errors(fs, safe_conda_base(args.buildpath, home, cwd), cwd)
    /\ log' = Append(log, "rmtree_conda")
    /\ pc' = "clean_dist"
    /\ UNCHANGED <<args, fs0, home, cwd, CONDA_BASE, app_path, icon_basename,
                   keep_app, ret, prompts, err>>

\* shutil.rmtree(args.distpath, ignore_errors=True)
CleanDist ==
    /\ pc = "clean_dist"
    /\ fs' = rmtree_ignore_errors(fs, args.distpath, cwd)
    /\ log' = Append(log, "rmtree_dist")
    /\ pc' = "clean_build"
    /\ UNCHANGED <<args, fs0, home, cwd, CONDA_BASE, app_path, icon_basename,
                   keep_app, ret, prompts, err>>

\* shutil.rmtree(args.buildpath, ignore_errors=True)
CleanBuild ==
    /\ pc = "clean_build"
    /\ fs' = rmtree_ignore_errors(fs, args.buildpath, cwd)
    /\ log' = Append(log, "rmtree_build")
    /\ pc' = "done"
    /\ UNCHANGED <<args, fs0, home, cwd, CONDA_BASE, app_path, icon_basename,
                   keep_app, ret, prompts, err>>

\* create_app_folder, lines 188-195: the `confirm and not get_confirmation(..)`
\* test calls get_confirmation only when confirm is true
\* (a test that prompts whatever confirm is)
asks_always(confirm) == TRUE

asks(confirm) == confirm

CreateAppFolder ==
    /\ pc = "create_app_folder"
    /\ LET ap == join(abspath(expanduser(args.distpath, home), cwd), APP_NAME)
       IN /\ app_path' = ap
          /\ pc' = IF exists(fs, ap, cwd)
                   THEN IF asks(~args.noconfirm) THEN "get_confirmation"
                        ELSE "remove_previous"
                   ELSE "makedirs"
    /\ UNCHANGED <<args, fs0, home, cwd, fs, CONDA_BASE, icon_basename,
                   keep_app, ret, prompts, log, err>>

\* get_confirmation(question, default_yes=True): one input() per step
RESPONSES == {"y", "n", "", "?"}

confirmed(resp, default_yes) == ~((resp = "" /\ ~default_yes) \/ resp = "n")

GetConfirmation ==
    /\ pc = "get_confirmation"
    /\ \E resp \in RESPONSES :
        /\ resp \notin {"y", "n", ""} => prompts < MaxPrompts
        /\ log' = IF prompts = 0 THEN Append(log, "input") ELSE log
        /\ IF resp \notin {"y", "n", ""}
           THEN pc' = pc /\ ret' = ret /\ prompts' = prompts + 1
           ELSE IF confirmed(resp, TRUE)
           THEN pc' = "remove_previous" /\ ret' = ret /\ prompts' = 0
           ELSE pc' = "create_exe" /\ ret' = app_path /\ prompts' = 0
    /\ UNCHANGED <<args, fs0, home, cwd, fs, CONDA_BASE, app_path, icon_basename,
                   keep_app, err>>

\* create_app_folder, lines 196-197: shutil.rmtree(app_path)
RemovePrevious ==
    /\ pc = "remove_previous"
    /\ IF isdir(fs, app_path, cwd)
       THEN /\ fs' = rmtree(fs, resolve(fs, app_path, cwd))
            /\ log' = Append(log, "rmtree_app")
            /\ pc' = "makedirs"
            /\ err' = err
       ELSE /\ Raise("create_app_folder", "NotADirectoryError")
            /\ UNCHANGED <<fs, log>>
    /\ UNCHANGED <<args, fs0, home, cwd, CONDA_BASE, app_path, icon_basename,
                   keep_app, ret, prompts>>

\* create_app_folder, lines 199-201: one os.makedirs per folder
RECURSIVE make_folders(_, _, _)
make_folders(f, ap, folders) ==
    IF folders = <<>> THEN f
    ELSE make_folders(mkdirs(f, join3(ap, CONTENTS, Head(folders))), ap, Tail(folders))

Makedirs ==
    /\ pc = "makedirs"
    /\ IF \E i \in 1..Len(FOLDERS) : exists(fs, join3(app_path, CONTENTS, FOLDERS[i]), cwd)
       THEN /\ Raise("create_app_folder", "FileExistsError")
            /\ UNCHANGED <<fs, log, ret>>
       ELSE /\ fs' = make_folders(fs, app_path, FOLDERS)
            /\ log' = Append(log, "makedirs")
            /\ ret' = app_path
            /\ pc' = "create_exe"
            /\ err' = err
    /\ UNCHANGED <<args, fs0, home, cwd, CONDA_BASE, app_path, icon_basename,
                   keep_app, prompts>>

\* create_exe: open(exe_path, "w"), write, chmod +x
CreateExe ==
    /\ pc = "create_exe"
    /\ LET r == resolve(fs, exe_path(app_path), cwd)
       IN IF can_write(fs, r)
          THEN /\ fs' = write(fs, r, LAUNCHER)
               /\ log' = Append(log, "write_exe")
               /\ pc' = "makedirs_build"
               /\ err' = err
          ELSE /\ Raise("create_exe", "OSError")
               /\ UNCHANGED <<fs, log>>
    /\ UNCHANGED <<args, fs0, home, cwd, CONDA_BASE, app_path, icon_basename,
                   keep_app, ret, prompts>>

\* main, line 295: makedirs(args.buildpath, exist_ok=True)
MakedirsBuild ==
    /\ pc = "makedirs_build"
    /\ LET r == resolve(fs, args.buildpath, cwd)
       IN IF r = ENOENT \/ (r \in DOMAIN fs /\ fs[r].kind # "dir")
          THEN Raise("main", "OSError") /\ fs' = fs
          ELSE fs' = mkdirs(fs, r) /\ pc' = "install_conda" /\ err' = err
    /\ UNCHANGED <<args, fs0, home, cwd, CONDA_BASE, app_path, icon_basename,
                   keep_app, ret, prompts, log>>

\* install_conda, lines 49-56 and 59-61: set the global, test the cache
\* (an installer that ignores the cached installation)
needs_install_always(f, conda_dir, c) == TRUE

needs_install(f, conda_dir, c) == ~exists(f, conda_dir, c)

needs_download(f, installer, c) == ~exists(f, installer, c)

InstallConda ==
    /\ pc = "install_conda"
    /\ LET conda_dir == safe_conda_base(args.buildpath, home, cwd)
       IN /\ CONDA_BASE' = conda_dir
          /\ ret' = conda_dir
          /\ pc' = IF needs_install(fs, conda_dir, cwd)
                   THEN IF needs_download(fs, join(args.buildpath, INSTALLER), cwd)
                        THEN "urlretrieve" ELSE "run_installer"
                   ELSE "create_env"
    /\ UNCHANGED <<args, fs0, home, cwd, fs, app_path, icon_basename,
                   keep_app, prompts, log, err>>

\* install_conda, line 57: urlretrieve either stores the installer or raises
Urlretrieve ==
    /\ pc = "urlretrieve"
    /\ log' = Append(log, "urlretrieve")
    /\ \E ok \in BOOLEAN :
        LET r == resolve(fs, join(args.buildpath, INSTALLER), cwd)
        IN IF ok /\ can_write(fs, r)
           THEN fs' = write(fs, r, FRESH) /\ pc' = "run_installer" /\ err' = err
           ELSE Raise("install_conda", "URLError") /\ fs' = fs
    /\ UNCHANGED <<args, fs0, home, cwd, CONDA_BASE, app_path, icon_basename,
                   keep_app, ret, prompts>>

\* what a successful `conda` installer / `conda create` / `pip install` leaves
conda_tree(f, base) ==
    write(mkdirs(f, join(base, <<"bin">>)), join3(base, <<"bin">>, <<"conda">>), FRESH)

env_tree(f, env_dir) ==
    write(write(mkdirs(mkdirs(f, join(env_dir, <<"bin">>)), join(env_dir, <<"lib">>)),
                join3(env_dir, <<"bin">>, <<"python">>), FRESH),
          join3(env_dir, <<"lib">>, <<"libpython">>), FRESH)

pip_tree(f, env_dir) ==
    write(write(f, join3(env_dir, <<"bin">>, NAME), FRESH),
          join3(env_dir, <<"bin">>, <<"designer", "-qt4">>), FRESH)

\* install_conda, line 58: run(["bash", installer, "-b", "-p", '"<conda_dir>"']);
\* the exit status is dropped, and the prefix is handed over inside literal
\* quotes, so the installer may or may not leave a directory at conda_dir
RunInstaller ==
    /\ pc = "run_installer"
    /\ log' = Append(log, "run_installer")
    /\ \E installed \in BOOLEAN :
        fs' = IF installed /\ resolve(fs, CONDA_BASE, cwd) # ENOENT
              THEN conda_tree(fs, resolve(fs, CONDA_BASE, cwd)) ELSE fs
    /\ pc' = "create_env"
    /\ UNCHANGED <<args, fs0, home, cwd, CONDA_BASE, app_path, icon_basename,
                   keep_app, ret, prompts, err>>

\* create_env, lines 112-116: delete an existing environment
CreateEnv ==
    /\ pc = "create_env"
    /\ LET env_dir == env_dir_of(ret)
       IN IF ~exists(fs, env_dir, cwd)
          THEN fs' = fs /\ pc' = "conda_create" /\ err' = err
          ELSE IF isdir(fs, env_dir, cwd)
          THEN fs' = rmtree(fs, resolve(fs, env_dir, cwd)) /\ pc' = "conda_create"
               /\ err' = err
          ELSE Raise("create_env", "NotADirectoryError") /\ fs' = fs
    /\ UNCHANGED <<args, fs0, home, cwd, CONDA_BASE, app_path, icon_basename,
                   keep_app, ret, prompts, log>>

\* conda_run, line 78: assert path.isdir(CONDA_BASE)
conda_run_assert(f, base, c) == isdir(f, base, c)

\* create_env, lines 117-128: conda_run(["conda", "create", ...]); the exit
\* status is dropped
CondaCreate ==
    /\ pc = "conda_create"
    /\ IF ~conda_run_assert(fs, CONDA_BASE, cwd)
       THEN Raise("conda_run", "AssertionError") /\ UNCHANGED <<fs, log>>
       ELSE /\ log' = Append(log, "conda_create")
            /\ \E created \in BOOLEAN :
                fs' = IF created
                      THEN env_tree(fs, resolve(fs, env_dir_of(ret), cwd)) ELSE fs
            /\ pc' = "pip_install"
            /\ err' = err
    /\ UNCHANGED <<args, fs0, home, cwd, CONDA_BASE, app_path, icon_basename,
                   keep_app, ret, prompts>>

\* create_env, lines 129-140: conda_run(["pip", "install", ...], app_name)
PipInstall ==
    /\ pc = "pip_install"
    /\ IF ~conda_run_assert(fs, CONDA_BASE, cwd)
       THEN Raise("conda_run", "AssertionError") /\ UNCHANGED <<fs, log, ret>>
       ELSE /\ log' = Append(log, "pip_install")
            /\ \E installed \in BOOLEAN :
                fs' = IF installed /\ isdir(fs, join(env_dir_of(ret), <<"bin">>), cwd)
                      THEN pip_tree(fs, resolve(fs, env_dir_of(ret), cwd)) ELSE fs
            /\ ret' = env_dir_of(ret)
            /\ pc' = "bundle_conda_env"
            /\ err' = err
    /\ UNCHANGED <<args, fs0, home, cwd, CONDA_BASE, app_path, icon_basename,
                   keep_app, prompts>>

\* bundle_conda_env, lines 149-158: the copy loop; the result is the tree and
\* the exception that stopped the loop (<<>> when it ran to its end)
RECURSIVE copy_items(_, _, _, _, _)
copy_items(f, env_dir, res, items, c) ==
    IF items = <<>> THEN [fs |-> f, err |-> <<>>]
    ELSE LET src == resolve(f, join(env_dir, Head(items)), c)
             dst == resolve(f, join(res, Head(items)), c)
         IN IF isdir(f, join(env_dir, Head(items)), c)
            THEN IF copytree_ok(f, src, dst)
                 THEN copy_items(copytree(f, src, dst), env_dir, res, Tail(items), c)
                 ELSE [fs |-> f, err |-> <<"bundle_conda_env", "FileExistsError">>]
            ELSE IF copy_ok(f, src, dst)
                 THEN copy_items(copy(f, src, dst), env_dir, res, Tail(items), c)
                 ELSE [fs |-> f, err |-> <<"bundle_conda_env", "FileNotFoundError">>]

\* bundle_conda_env, lines 160-173: the exclusion pass
RECURSIVE remove_all(_, _)
remove_all(f, S) ==
    IF S = {} THEN f
    ELSE LET r == CHOOSE x \in S : \A y \in S : Len(x) <= Len(y)
         IN remove_all(IF r \in DOMAIN f /\ r # ROOT /\ f[r].kind \in {"dir", "file"}
                       THEN rmtree(f, r) ELSE f, S \ {r})

RECURSIVE exclude_all(_, _, _, _)
exclude_all(f, res, patterns, c) ==
    IF patterns = <<>> THEN f
    ELSE exclude_all(remove_all(f, glob(f, join(res, Head(patterns)), c)),
                     res, Tail(patterns), c)

BundleCondaEnv ==
    /\ pc = "bundle_conda_env"
    /\ IF args.conda_include = <<>> /\ ~isdir(fs, ret, cwd)
       THEN Raise("bundle_conda_env", "FileNotFoundError") /\ UNCHANGED <<fs, log>>
       ELSE \E include \in IF args.conda_include # <<>> THEN {args.conda_include}
                           ELSE orders(listdir(fs, resolve(fs, ret, cwd))) :
              LET copied == copy_items(fs, ret, resource_dir(app_path), include, cwd)
              IN IF copied.err # <<>>
                 THEN /\ fs' = copied.fs
                      /\ log' = Append(log, "copy_env")
                      /\ pc' = "error"
                      /\ err' = copied.err
                 ELSE /\ fs' = exclude_all(copied.fs, resource_dir(app_path),
                                           args.conda_exclude, cwd)
                      /\ log' = Append(log, "copy_env")
                      /\ pc' = "copy_icon"
                      /\ err' = err
    /\ UNCHANGED <<args, fs0, home, cwd, CONDA_BASE, app_path, icon_basename,
                   keep_app, ret, prompts>>

\* copy_icon, lines 251-253: the path that is tested and copied.  Line 252
\* binds the bundled default to the local `icon`; line 253 then rebinds it
\* from args.icon.
icon_path(icon_arg, h, c) ==
    LET icon == IF icon_arg = <<>> THEN DEFAULT_ICON ELSE icon_arg
    IN abspath(expanduser(icon_arg, h), c)

CopyIcon ==
    /\ pc = "copy_icon"
    /\ LET icon == icon_path(args.icon, home, cwd)
           src == resolve(fs, icon, cwd)
           dst == resolve(fs, join(resource_dir(app_path), basename(icon)), cwd)
       IN IF isfile(fs, icon, cwd)
          THEN IF copy_ok(fs, src, dst)
               THEN /\ fs' = copy(fs, src, dst)
                    /\ log' = Append(log, "copy_icon")
                    /\ icon_basename' = basename(icon)
                    /\ pc' = "create_info_plist"
                    /\ err' = err
               ELSE /\ Raise("copy_icon", "FileNotFoundError")
                    /\ UNCHANGED <<fs, log, icon_basename>>
          ELSE /\ icon_basename' = <<>>
               /\ pc' = "create_info_plist"
               /\ UNCHANGED <<fs, log, err>>
    /\ UNCHANGED <<args, fs0, home, cwd, CONDA_BASE, app_path, keep_app, ret, prompts>>

\* create_info_plist, lines 238-245, as main calls it: version, author and
\* copyright keep their defaults
render(template, app_name, icon_name) ==
    replace(replace(replace(replace(replace(replace(template,
        <<"{{ app_name }}">>, app_name),
        <<"{{ app_author }}">>, app_name),
        <<"{{ app_icon }}">>, icon_name),
        <<"{{ app_version }}">>, <<"0.1.0">>),
        <<"{{ year }}">>, <<"year">>),
        <<"{{ copyright }}">>, app_name \o <<" ", "contributors">>)

CreateInfoPlist ==
    /\ pc = "create_info_plist"
    /\ LET r == resolve(fs, plist_path(app_path), cwd)
       IN IF isfile(fs, PLIST_TEMPLATE, cwd) /\ can_write(fs, r)
          THEN /\ fs' = write(fs, r, render(fs[PLIST_TEMPLATE].data, NAME, icon_basename))
               /\ log' = Append(log, "write_plist")
               /\ pc' = IF args.nodmg THEN "done" ELSE "make_dmg"
               /\ ret' = IF args.nodmg THEN app_path ELSE ret
               /\ err' = err
          ELSE /\ Raise("create_info_plist", "FileNotFoundError")
               /\ UNCHANGED <<fs, log, ret>>
    /\ UNCHANGED <<args, fs0, home, cwd, CONDA_BASE, app_path, icon_basename,
                   keep_app, prompts>>

\* make_dmg, lines 265-273: staging directory, Applications link, then the
\* bundle is copied (keep_app) or moved into the staging directory
MakeDmg ==
    /\ pc = "make_dmg"
    /\ LET dmg_dir == resolve(fs, dmg_dir_of(app_path), cwd)
           src == resolve(fs, app_path, cwd)
           link == dmg_dir \o <<"/", "Applications">>
           staged == mkdirs(fs, dmg_dir)
           linked == IF link \in DOMAIN staged THEN staged
                     ELSE overlay(staged, [q \in {link} |-> Link])
       IN IF dmg_dir = ENOENT \/ (dmg_dir \in DOMAIN fs /\ fs[dmg_dir].kind # "dir")
          THEN Raise("make_dmg", "OSError") /\ UNCHANGED <<fs, log>>
          ELSE IF keep_app
          THEN IF copytree_ok(linked, src, dmg_dir)
               THEN /\ fs' = copytree(linked, src, dmg_dir)
                    /\ log' = Append(log, "copytree_app")
                    /\ pc' = "hdiutil"
                    /\ err' = err
               ELSE /\ fs' = linked
                    /\ Raise("make_dmg", "FileExistsError")
                    /\ log' = log
          ELSE IF move_ok(linked, src, dmg_dir)
               THEN /\ fs' = move(linked, src, dmg_dir)
                    /\ log' = Append(log, "move_app")
                    /\ pc' = "hdiutil"
                    /\ err' = err
               ELSE /\ fs' = linked
                    /\ Raise("make_dmg", "shutil.Error")
                    /\ log' = log
    /\ UNCHANGED <<args, fs0, home, cwd, CONDA_BASE, app_path, icon_basename,
                   keep_app, ret, prompts>>

\* make_dmg, lines 275-283: run hdiutil, clean up on a zero exit status
\* (a cleanup that does not look at the exit status)
dmg_created_any(returncode) == TRUE

dmg_created(returncode) == returncode = 0

Hdiutil ==
    /\ pc = "hdiutil"
    /\ \E returncode \in {0, 1} :
        LET dmg_dir == resolve(fs, dmg_dir_of(app_path), cwd)
            dmg_file == resolve(fs, dmg_file_of(app_path), cwd)
            archived == IF returncode = 0 THEN write(fs, dmg_file, FRESH) ELSE fs
        IN /\ fs' = IF dmg_created(returncode) THEN rmtree(archived, dmg_dir)
                    ELSE archived
           /\ log' = Append(log, IF returncode = 0 THEN "hdiutil_ok" ELSE "hdiutil_failed")
    /\ pc' = "done"
    /\ ret' = app_path
    /\ UNCHANGED <<args, fs0, home, cwd, CONDA_BASE, app_path, icon_basename,
                   keep_app, prompts, err>>

\* ------------------------------------------------------------------------
\* Command lines and the disk the script starts on
\* ------------------------------------------------------------------------
HOME == <<"/", "h">>
CWD == <<"/", "w">>
HOMES == {HOME, <<"/", "h", " ", "n">>}
CWDS == {CWD, <<"/", "w", " ", "x">>}
PATH_SYMBOLS == {"/", "~", " ", ".", "b"}
BUILDPATHS == {<<"b">>, <<"a", " ", "b">>}
DISTPATHS == {<<"d">>, <<"~", "/", "d">>}
\* the pairs <<distpath, buildpath>> builds are run with
BUILD_DIRS == {<< <<"d">>, <<"b">> >>, << <<"~", "/", "d">>, <<"a", " ", "b">> >>}
ICON_FILE == <<"i", ".icns">>
ICONS == {<<>>, ICON_FILE, <<"no", ".icns">>}
INCLUDES == {<<>>, << <<"lib">> >>}
EXCLUDES == {<<>>, << <<"bin", "/", "*", "-qt4", "*">> >>,
             << <<".", ".", "/", "Frameworks">> >>}

\* the argparse defaults, lines 317-412 (paths without their leading "./")
DEFAULTS ==
    [clean |-> FALSE, noconfirm |-> FALSE, nodmg |-> FALSE, icon |-> <<>>,
     distpath |-> <<"d">>, buildpath |-> <<"b">>, conda_include |-> <<>>,
     conda_exclude |-> << <<"bin", "/", "*", "-qt4", "*">> >>]

\* all strings of 1..n symbols
RECURSIVE strings(_)
strings(n) ==
    IF n = 0 THEN {<<>>}
    ELSE strings(n - 1) \cup {Append(t, x) : t \in strings(n - 1), x \in PATH_SYMBOLS}

\* home, working and script directories, the template, an icon the user may
\* name, and (deficon) the bundled default icon
base_fs(h, c, deficon) ==
    LET d == mkdirs(mkdirs(mkdirs(<<>>, c), h), SCRIPT_DIR)
        t == write(write(d, PLIST_TEMPLATE, TEMPLATE), join(c, ICON_FILE), FRESH)
    IN IF deficon THEN write(t, DEFAULT_ICON, FRESH) ELSE t

\* the bundle an earlier --nodmg run left at ap: with every item of the
\* environment ("full"), or built with --conda-include bin
\* --conda-exclude ../Frameworks ("nofw")
old_bundle(f, ap, kind) ==
    LET c == join(ap, CONTENTS)
        skel == mkdirs(mkdirs(f, join(c, <<"MacOS">>)), join3(c, <<"Resources">>, <<"bin">>))
        fw == IF kind = "full"
              THEN write(mkdirs(mkdirs(skel, join(c, <<"Frameworks">>)),
                                join3(c, <<"Resources">>, <<"lib">>)),
                         join4(c, <<"Resources">>, <<"lib">>, <<"libpython">>), OLD)
              ELSE skel
    IN write(write(write(fw, join3(c, <<"MacOS">>, NAME), OLD),
                   join4(c, <<"Resources">>, <<"bin">>, <<"python">>), OLD),
             join(c, <<"Info.plist">>), OLD)

\* the staging directory an earlier run left behind when hdiutil failed
old_staging(f, ap) ==
    LET dmg == dmg_dir_of(ap)
    IN overlay(old_bundle(f, join(dmg, APP_NAME), "full"),
               [q \in {join(dmg, <<"Applications">>)} |-> Link])

\* what earlier runs left of the installer, the installation and the
\* environment
old_conda(f, build, base, kind) ==
    LET b == IF kind = "none" THEN f ELSE write(mkdirs(f, build), join(build, INSTALLER), OLD)
        i == IF kind \in {"base", "env"} THEN conda_tree(b, base) ELSE b
    IN IF kind = "env"
       THEN write(mkdirs(i, join(env_dir_of(base), <<"bin">>)),
                  join3(env_dir_of(base), <<"bin">>, <<"python">>), OLD)
       ELSE i

disk(a, h, c, deficon, app, staging, conda) ==
    LET ap == join(abspath(expanduser(a.distpath, h), c), APP_NAME)
        f0 == base_fs(h, c, deficon)
        f1 == IF app = "none" THEN f0 ELSE old_bundle(f0, ap, app)
        f2 == IF staging THEN old_staging(f1, ap) ELSE f1
    IN old_conda(f2, abspath(a.buildpath, c), safe_conda_base(a.buildpath, h, c), conda)

APPS == {"none", "full", "nofw"}
CONDAS == {"none", "script", "base", "env"}

InitRest ==
    /\ fs0 = fs
    /\ pc = "start"
    /\ CONDA_BASE = <<>>
    /\ app_path = <<>>
    /\ icon_basename = <<>>
    /\ keep_app = FALSE
    /\ ret = <<>>
    /\ prompts = 0
    /\ log = <<>>
    /\ err = <<>>

\* a build: every command line over the sets above
InitBuild ==
    /\ home = HOME /\ cwd = CWD
    /\ \E nc \in BOOLEAN, nd \in BOOLEAN, i \in ICONS, db \in BUILD_DIRS,
          inc \in INCLUDES, exc \in EXCLUDES :
        args = [clean |-> FALSE, noconfirm |-> nc, nodmg |-> nd, icon |-> i,
                distpath |-> db[1], buildpath |-> db[2], conda_include |-> inc,
                conda_exclude |-> exc]
    /\ \E deficon \in (IF args.icon = <<>> THEN BOOLEAN ELSE {TRUE}),
          app \in APPS, staging \in (IF args.nodmg THEN {FALSE} ELSE BOOLEAN),
          conda \in CONDAS :
        fs = disk(args, home, cwd, deficon, app, staging, conda)
    /\ InitRest

\* --clean: the other options keep their defaults
InitClean ==
    /\ home = HOME /\ cwd = CWD
    /\ \E d \in DISTPATHS, b \in BUILDPATHS :
        args = [DEFAULTS EXCEPT !.clean = TRUE, !.distpath = d, !.buildpath = b]
    /\ \E app \in APPS, staging \in BOOLEAN, conda \in CONDAS :
        fs = disk(args, home, cwd, TRUE, app, staging, conda)
    /\ InitRest

Init == InitBuild \/ InitClean

Next ==
    \/ Start
    \/ CleanConda \/ CleanDist \/ CleanBuild
    \/ CreateAppFolder \/ GetConfirmation \/ RemovePrevious \/ Makedirs
    \/ CreateExe \/ MakedirsBuild
    \/ InstallConda \/ Urlretrieve \/ RunInstaller
    \/ CreateEnv \/ CondaCreate \/ PipInstall
    \/ BundleCondaEnv \/ CopyIcon \/ CreateInfoPlist
    \/ MakeDmg \/ Hdiutil

Spec == Init /\ [][Next]_vars

\* ------------------------------------------------------------------------
\* safe_conda_base on its own: every build path of at most MaxLen symbols,
\* under each home and working directory
\* ------------------------------------------------------------------------
PathInit ==
    /\ home \in HOMES /\ cwd \in CWDS
    /\ \E b \in strings(MaxLen) : args = [DEFAULTS EXCEPT !.buildpath = b]
    /\ fs = base_fs(home, cwd, TRUE)
    /\ fs0 = fs
    /\ pc = "safe_conda_base"
    /\ CONDA_BASE = <<>> /\ app_path = <<>> /\ icon_basename = <<>>
    /\ keep_app = FALSE /\ ret = <<>> /\ prompts = 0 /\ log = <<>> /\ err = <<>>

SafeCondaBase ==
    /\ pc = "safe_conda_base"
    /\ ret' = safe_conda_base(args.buildpath, home, cwd)
    /\ pc' = "returned"
    /\ UNCHANGED <<args, fs0, home, cwd, fs, CONDA_BASE, app_path, icon_basename,
                   keep_app, prompts, log, err>>

NextPath == SafeCondaBase

SpecPath == PathInit /\ [][NextPath]_vars

\* ------------------------------------------------------------------------
\* make_dmg on its own: called on a finished bundle, with either value of
\* keep_app
\* ------------------------------------------------------------------------
DmgInit ==
    /\ home \in HOMES /\ cwd \in CWDS
    /\ \E d \in DISTPATHS : args = [DEFAULTS EXCEPT !.distpath = d]
    /\ keep_app \in BOOLEAN
    /\ \E app \in {"full", "nofw"}, staging \in BOOLEAN, deficon \in BOOLEAN :
        fs = disk(args, home, cwd, deficon, app, staging, "env")
    /\ fs0 = fs
    /\ app_path = join(abspath(expanduser(args.distpath, home), cwd), APP_NAME)
    /\ pc = "make_dmg"
    /\ CONDA_BASE = <<>> /\ icon_basename = <<>>
    /\ ret = <<>> /\ prompts = 0 /\ log = <<>> /\ err = <<>>

NextDmg == MakeDmg \/ Hdiutil

SpecDmg == DmgInit /\ [][NextDmg]_vars

\* ------------------------------------------------------------------------
\* Properties
\* ------------------------------------------------------------------------
InLog(e) == \E i \in 1..Len(log) : log[i] = e

\* where the build puts the bundle, and where make_dmg stages it
target == join(abspath(expanduser(args.distpath, home), cwd), APP_NAME)
staged == join(dmg_dir_of(target), APP_NAME)
bundle_at == IF InLog("move_app") THEN staged ELSE target
conda_at == safe_conda_base(args.buildpath, home, cwd)

subtree(f, r) == [q \in {x \in DOMAIN f : under(r, x)} |-> f[q]]

subdirs(f, r) == {basename(q) : q \in {x \in DOMAIN f :
                      x # r /\ x # ROOT /\ parent(x) = r /\ f[x].kind = "dir"}}

SKELETON == {<<"MacOS">>, <<"Resources">>, <<"Frameworks">>}

\* a relative path that names something below the directory it is joined to
inside(p) == ~startswith(p, "/") /\ \A i \in 1..Len(split(p)) : split(p)[i] # <<".", ".">>

filters_inside ==
    /\ \A i \in 1..Len(args.conda_include) : inside(args.conda_include[i])
    /\ \A i \in 1..Len(args.conda_exclude) : inside(args.conda_exclude[i])

declined ==
    /\ ~args.clean /\ InLog("input") /\ ~InLog("rmtree_app")
    /\ pc \notin {"get_confirmation", "remove_previous"}

\* C1: for every build path that contains a space, the path safe_conda_base
\* returns contains no space, whatever the home and working directories are.
C1_NoSpaceInCondaBase ==
    (pc = "returned" /\ HasSpace(args.buildpath)) => ~HasSpace(ret)

rebuilt(f, b) ==
    /\ isdir(f, join(contents_dir(b), <<"MacOS">>), cwd)
    /\ isdir(f, resource_dir(b), cwd)
    /\ isfile(f, exe_path(b), cwd)
    /\ f[resolve(f, exe_path(b), cwd)].data = LAUNCHER
    /\ isdir(f, join(resource_dir(b), <<"lib">>), cwd)
    /\ (args.conda_include = <<>> => isdir(f, join(resource_dir(b), <<"bin">>), cwd))
    /\ (icon_basename # <<>> => isfile(f, join(resource_dir(b), icon_basename), cwd))
    /\ isfile(f, plist_path(b), cwd)
    /\ f[resolve(f, plist_path(b), cwd)].data = render(TEMPLATE, NAME, icon_basename)

\* C3: a build with --noconfirm over an existing bundle never prompts, deletes
\* the bundle before anything is written, and rebuilds it (skeleton, launcher,
\* environment contents, icon, Info.plist) with nothing of the old bundle left.
C3_NoconfirmRebuild ==
    (~args.clean /\ args.noconfirm /\ isdir(fs0, target, cwd)) =>
        /\ ~InLog("input") /\ pc # "get_confirmation"
        /\ (log # <<>> => log[1] = "rmtree_app")
        /\ (pc = "makedirs" => ~exists(fs, target, cwd))
        /\ (InLog("rmtree_app") =>
               \A q \in DOMAIN fs :
                   under(bundle_at, q) =>
                       /\ fs[q].data # OLD
                       /\ (q \in DOMAIN fs0 /\ under(target, q) => InLog("makedirs")))
        /\ (InLog("write_plist") /\ exists(fs, bundle_at, cwd) => rebuilt(fs, bundle_at))

C3_Witness ==
    /\ pc = "done" /\ args.noconfirm /\ args.nodmg /\ isdir(fs0, target, cwd)
    /\ InLog("rmtree_app") /\ InLog("write_plist") /\ rebuilt(fs, target)

\* C4: when an installation exists at the resolved path, install_conda neither
\* downloads nor runs the installer, leaves the installation as it is and
\* returns the resolved path.
C4_CachedInstall ==
    (~args.clean /\ exists(fs0, conda_at, cwd)) =>
        /\ ~InLog("urlretrieve") /\ ~InLog("run_installer")
        /\ pc \notin {"urlretrieve", "run_installer"}
        /\ (pc = "create_env" =>
               /\ ret = conda_at /\ CONDA_BASE = conda_at
               /\ subtree(fs, conda_at) = subtree(fs0, conda_at))

C4_Witness ==
    /\ pc = "create_env" /\ exists(fs0, conda_at, cwd)
    /\ ret = conda_at /\ ~InLog("run_installer")

\* C5: after hdiutil ran, the staging directory is gone when it succeeded;
\* when it failed the staging directory, its Applications link and the bundle
\* in it are still there and the run ends without an exception.
C5_StagingAfterHdiutil ==
    /\ InLog("hdiutil_ok") => ~exists(fs, dmg_dir_of(target), cwd)
    /\ InLog("hdiutil_failed") =>
          /\ isdir(fs, dmg_dir_of(target), cwd)
          /\ join(dmg_dir_of(target), <<"Applications">>) \in DOMAIN fs
          /\ isdir(fs, staged, cwd)
          /\ subtree(fs, staged) # <<>>
          /\ pc = "done" /\ err = <<>>

C5_Witness ==
    /\ pc = "done" /\ InLog("hdiutil_failed") /\ InLog("move_app")
    /\ isdir(fs, staged, cwd) /\ ~exists(fs, target, cwd)

\* C6: with keep_app a copy of the bundle is put into the staging directory
\* and the original is still at its path when make_dmg returns; without
\* keep_app the bundle is moved, so it is staged and no longer at its path
\* when hdiutil is invoked.
C6_KeepAppCopies ==
    /\ (keep_app /\ pc # "make_dmg") =>
          /\ err = <<>>
          /\ subtree(fs, target) = subtree(fs0, target)
          /\ (pc = "hdiutil" => isdir(fs, staged, cwd))
    /\ (~keep_app /\ pc = "hdiutil") =>
          /\ isdir(fs, staged, cwd) /\ ~exists(fs, target, cwd)

\* C7: an icon path that names no file copies nothing, the run still writes
\* Info.plist with the icon placeholder replaced by the empty string; with no
\* icon path at all the bundled default icon is resolved and copied when it
\* exists.
C7_IconResolution ==
    ~args.clean /\ pc \in {"create_info_plist", "make_dmg", "hdiutil", "done"} =>
        /\ (args.icon # <<>> /\ ~isfile(fs0, args.icon, cwd)) =>
              /\ icon_basename = <<>> /\ ~InLog("copy_icon")
              /\ (InLog("write_plist") /\ exists(fs, bundle_at, cwd) =>
                     fs[resolve(fs, plist_path(bundle_at), cwd)].data
                         = render(TEMPLATE, NAME, <<>>))
        /\ (args.icon = <<>> /\ isfile(fs0, DEFAULT_ICON, cwd)) =>
              /\ icon_basename = basename(DEFAULT_ICON) /\ InLog("copy_icon")

\* C8: --clean runs no build step, ends without an exception whichever of the
\* three directories exist, and afterwards the installation, the distribution
\* directory and the build directory are all gone.
C8_CleanRemovesAll ==
    args.clean =>
        /\ \A i \in 1..Len(log) : log[i] \in {"rmtree_conda", "rmtree_dist", "rmtree_build"}
        /\ pc # "error"
        /\ (pc = "done" =>
               /\ ~exists(fs, conda_at, cwd)
               /\ ~exists(fs, dirname(target), cwd)
               /\ ~exists(fs, args.buildpath, cwd))

\* C9: when the user declines the overwrite, the existing bundle is neither
\* deleted nor recreated and the rest of the run, the copy into the existing
\* Resources directory included, goes on without an exception.
C9_DeclineIsNormalPath ==
    declined =>
        /\ ~InLog("makedirs")
        /\ (pc = "create_exe" => ret = target /\ subtree(fs, target) = subtree(fs0, target))
        /\ err # <<"bundle_conda_env", "FileExistsError">>

\* C10: every conda_run happens after install_conda set CONDA_BASE, and
\* CONDA_BASE is then a directory, so the assertion in conda_run never fails.
C10_CondaRunAssertion ==
    /\ pc \in {"conda_create", "pip_install"} => CONDA_BASE = conda_at
    /\ err # <<"conda_run", "AssertionError">>

====
